---------------------------- MODULE Spec2Model ----------------------------
(***************************************************************************)
(* A model of the tope_updater OTA agent: the version store with its       *)
(* atomic symlink promotion (services/version_manager.py), the installer   *)
(* with its two-level rollback (services/deploy.py), the resumable         *)
(* downloader (services/download.py), the state manager                    *)
(* (services/state_manager.py) and the command admission gate with its     *)
(* background tasks (api/routes.py, main.py).                              *)
(*                                                                         *)
(* The agent is one asyncio process.  Code between two awaits runs without *)
(* interleaving of other coroutines; the file system, however, is shared   *)
(* with other processes, so every system call is a step of its own.        *)
(***************************************************************************)
EXTENDS Integers, Sequences, FiniteSets, TLC

\* ------------------------------------------------------------------ bounds
\* Versions are 1..NVersions; version k stands for the directory v<k>.
NVersions == 3

\* Commands the agent accepts in one run; each starts one background task.
MaxTasks == 2
\* Longest package file, in chunks (one chunk is one byte of the model).
MaxFile == 3
\* Most modules a manifest lists.
MaxModules == 2
\* So many modules that the first one's share of the 80 points of step 4
\* stays under the 5 points of step 3.
ManyModules == (80 \div 5) + 1
\* The package_size every download request declares, in chunks.
PkgSize == 2

\* The progress step at which the downloader writes status and record.
ProgressStep == 5
\* A declared size so large that the first chunk stays under the first step.
BigSize == (100 \div (ProgressStep - 1)) + 1

NoV == 0
Versions == 1..NVersions
TaskIds == 1..MaxTasks
Bytes == {0, 1}
LinkNames == {"current", "previous", "factory"}

VARIABLES
    dirs,       \* versions whose snapshot directory v<k> exists
    links,      \* link name -> version the symlink points to (NoV: no link)
    tmp,        \* link name -> target of .<name>.tmp.<pid> (NoV: no such entry)
    vm,         \* the VersionManager call in progress (synchronous code)
    stage,      \* StateManager._current_stage
    progress,   \* StateManager._current_progress
    error,      \* StateManager._current_error (its leading code)
    pstate,     \* StateManager._persistent_state (cached resume record)
    disk,       \* ./tmp/state.json
    file,       \* ./tmp/<package_name>
    tasks,      \* the background tasks of the process
    up,         \* FALSE until lifespan's startup has run
    ncmd,       \* commands accepted so far
    atKill,     \* stage of the previous process when it was killed, "none"
                \* once startup has run (for the properties only)
    orch        \* the orchestrator that receives the reports: "up", "down"
                \* (every report meets a transport failure); "raised" once
                \* a report has raised into its caller (for the properties)

smVars == <<stage, progress, error, pstate, disk>>
proc == <<up, ncmd, atKill>>
env == <<proc, orch>>
others == <<smVars, file, tasks, env>>
vmVars == <<dirs, links, tmp, vm>>

vars == <<dirs, links, tmp, vm, others>>

\* ------------------------------------------------------ version store
\* Path.exists() on a link follows it: false for a missing or dangling link.
LinkExists(l) == links[l] # NoV /\ links[l] \in dirs

\* get_current_version / get_previous_version / get_factory_version
GetVersion(l) == IF LinkExists(l) THEN links[l] ELSE NoV

VmIdle == [op |-> "idle", pc |-> "idle", v |-> NoV, link |-> "current",
           target |-> NoV, old |-> NoV, cur0 |-> NoV, prev0 |-> NoV,
           caller |-> 0, err |-> "none"]

\* Entry of update_symlink(link, target): the target check of line 83.
UsEnter(frame, l, target) ==
    IF target \in dirs
    THEN [frame EXCEPT !.pc = "us_symlink", !.link = l, !.target = target,
                       !.old = links[l]]
    ELSE [frame EXCEPT !.pc = "us_raised", !.link = l, !.target = target,
                       !.old = links[l], !.err = "FileNotFoundError"]

\* --- the system calls of update_symlink, each returning the new <<links, tmp>>
\* A non-atomic update: the old link is removed before the new one is placed.
SymlinkTo_UnlinkFirst(l, target) ==
    [links |-> [links EXCEPT ![l] = NoV], tmp |-> [tmp EXCEPT ![l] = target]]

\* temp_link.symlink_to(relative_target), line 94
SymlinkTo(l, target) == [links |-> links, tmp |-> [tmp EXCEPT ![l] = target]]

\* temp_link.replace(link_path), line 97: rename(2) over the old link
ReplaceLink(l) == [links |-> [links EXCEPT ![l] = tmp[l]],
                   tmp   |-> [tmp EXCEPT ![l] = NoV]]

\* A handler that re-raises without removing the temporary link.
CleanupTemp_Skipped(l) == tmp

\* the handler of lines 101-104: if temp_link.exists(): temp_link.unlink()
CleanupTemp(l) == IF tmp[l] # NoV /\ tmp[l] \in dirs
                  THEN [tmp EXCEPT ![l] = NoV]
                  ELSE tmp

\* update_symlink, line 94: the temporary link is created, or symlink_to raises
\* (the entry exists already, or the file system refuses).
UsSymlink ==
    /\ vm.pc = "us_symlink"
    /\ \/ /\ tmp[vm.link] = NoV
          /\ LET r == SymlinkTo(vm.link, vm.target)
             IN  links' = r.links /\ tmp' = r.tmp
          /\ vm' = [vm EXCEPT !.pc = "us_replace"]
       \/ /\ vm' = [vm EXCEPT !.pc = "us_except"]
          /\ UNCHANGED <<links, tmp>>
    /\ UNCHANGED <<dirs>>
    /\ UNCHANGED others

\* update_symlink, line 97: the rename succeeds or raises.
UsReplace ==
    /\ vm.pc = "us_replace"
    /\ \/ /\ LET r == ReplaceLink(vm.link)
             IN  links' = r.links /\ tmp' = r.tmp
          /\ vm' = [vm EXCEPT !.pc = "us_ret"]
       \/ /\ vm' = [vm EXCEPT !.pc = "us_except"]
          /\ UNCHANGED <<links, tmp>>
    /\ UNCHANGED <<dirs>>
    /\ UNCHANGED others

\* update_symlink, lines 101-105: cleanup, then raise OSError.
UsExcept ==
    /\ vm.pc = "us_except"
    /\ tmp' = CleanupTemp(vm.link)
    /\ vm' = [vm EXCEPT !.pc = "us_raised", !.err = "OSError"]
    /\ UNCHANGED <<dirs, links>>
    /\ UNCHANGED others

\* promote_version(v), lines 211-219: the first statement after the call.
PromoteEnter(frame) ==
    IF frame.v \notin dirs
    THEN [frame EXCEPT !.pc = "done", !.err = "FileNotFoundError"]
    ELSE IF LinkExists("current")
         THEN UsEnter(frame, "previous", links["current"])
         ELSE UsEnter(frame, "current", frame.v)

\* A rollback that takes the link's target without looking at it.
RollbackPrevEnter_Unchecked(frame) ==
    UsEnter([frame EXCEPT !.v = links["previous"]],
            "current", links["previous"])

\* rollback_to_previous(), lines 258-269
RollbackPrevEnter(frame) ==
    IF GetVersion("previous") = NoV
    THEN [frame EXCEPT !.pc = "done", !.err = "RuntimeError"]
    ELSE UsEnter([frame EXCEPT !.v = GetVersion("previous")],
                 "current", GetVersion("previous"))

\* rollback_to_factory(), lines 283-294
RollbackFactoryEnter(frame) ==
    IF GetVersion("factory") = NoV
    THEN [frame EXCEPT !.pc = "done", !.err = "RuntimeError"]
    ELSE UsEnter([frame EXCEPT !.v = GetVersion("factory")],
                 "current", GetVersion("factory"))

\* set_factory_version(v), lines 238-246
SetFactoryEnter(frame) ==
    IF LinkExists("factory")
    THEN [frame EXCEPT !.pc = "done", !.err = "ValueError"]
    ELSE IF frame.v \notin dirs
         THEN [frame EXCEPT !.pc = "done", !.err = "FileNotFoundError"]
         ELSE UsEnter(frame, "factory", frame.v)

\* set_factory_version(v) called inside create_factory_version's try: what
\* it raises goes to the handler of line 389.
CfSetFactoryEnter(frame) ==
    LET f == SetFactoryEnter(frame)
    IN  IF f.pc = "done" THEN [f EXCEPT !.pc = "cf_cleanup"] ELSE f

\* create_factory_version(v), lines 356-373
CreateFactoryEnter(frame) ==
    IF GetVersion("current") = NoV
    THEN [frame EXCEPT !.pc = "done", !.err = "RuntimeError"]
    ELSE IF LinkExists("factory")
         THEN [frame EXCEPT !.pc = "done", !.err = "ValueError"]
         ELSE IF GetVersion("current") = frame.v
              THEN CfSetFactoryEnter(frame)
              ELSE [frame EXCEPT !.pc = "cf_copy"]

VmEnter(op, v, caller) ==
    LET frame == [VmIdle EXCEPT !.op = op, !.v = v, !.caller = caller,
                                !.cur0 = links["current"],
                                !.prev0 = links["previous"]]
    IN  CASE op = "promote"        -> PromoteEnter(frame)
          [] op = "rb_previous"    -> RollbackPrevEnter(frame)
          [] op = "rb_factory"     -> RollbackFactoryEnter(frame)
          [] op = "set_factory"    -> SetFactoryEnter(frame)
          [] op = "create_factory" -> CreateFactoryEnter(frame)

\* What the caller of update_symlink does when it returns or raises:
\* promote_version goes on to its second link (line 223); inside
\* create_factory_version the read-only pass follows, or the handler; every
\* other caller returns, and an exception propagates.
UsLeave ==
    /\ vm.pc \in {"us_ret", "us_raised"}
    /\ vm' = IF vm.op = "create_factory"
             THEN [vm EXCEPT !.pc = IF vm.pc = "us_raised" THEN "cf_cleanup"
                                   ELSE "cf_readonly"]
             ELSE IF vm.pc = "us_raised"
             THEN [vm EXCEPT !.pc = "done"]
             ELSE IF vm.op = "promote" /\ vm.link = "previous"
                  THEN UsEnter(vm, "current", vm.v)
                  ELSE [vm EXCEPT !.pc = "done"]
    /\ UNCHANGED <<dirs, links, tmp>>
    /\ UNCHANGED others

VmStep == UsSymlink \/ UsReplace \/ UsExcept \/ UsLeave

\* ------------------------------------------------------ state manager
\* A resume record (StateFile) of the one package_url and package_name the
\* model has: version, package_size, package_md5, bytes_downloaded, stage
\* and verified_at ("none", "fresh": less than 24 h ago, "old": more).
NoRec == [none |-> TRUE]
Corrupt == [corrupt |-> TRUE]
\* A file also records (for the properties only) the version of the download
\* that created it.
NoFile == [ex |-> FALSE, data |-> <<>>, ino |-> 0, src |-> NoV]

\* StateFile.is_package_expired, models/state.py lines 50-52
IsExpired_Never(r) == FALSE
IsExpired(r) == r.verified = "old"

\* A progress that counts bytes instead of percent.
Pct_Bytes(b, size) == b

\* int((bytes_downloaded / package_size) * 100), download.py lines 90, 226,
\* main.py line 106
Pct(b, size) == (b * 100) \div size

\* hashlib.md5 over the file read in order (verification.py lines 82-98),
\* as a digest folded over the bytes that no two files of the model share.
RECURSIVE Md5Fold(_, _)
Md5Fold(h, data) ==
    IF data = <<>> THEN h
    ELSE Md5Fold(h * 3 + Head(data) + 1, Tail(data))

Md5(data) == Md5Fold(0, data)

\* StateManager.update_status, lines 78-81
UpdateStatus(st, pr, er) == stage' = st /\ progress' = pr /\ error' = er

\* A save that never reaches the disk.
SaveState_MemoryOnly(rec) == pstate' = rec /\ UNCHANGED disk

\* StateManager.save_state, lines 115-119
SaveState(rec) == disk' = rec /\ pstate' = rec

\* A delete that leaves state.json where it is.
DeleteState_Skipped == UNCHANGED <<disk, pstate>>

\* StateManager.delete_state, lines 127-130
DeleteState ==
    IF disk # NoRec
    THEN disk' = NoRec /\ pstate' = NoRec
    ELSE UNCHANGED <<disk, pstate>>

\* ---------------------------------------------------------- downloader
TaskNone == [kind |-> "none", pc |-> "none", ver |-> NoV, size |-> 0,
             md5 |-> 0, bytes |-> 0, expected |-> -1, last |-> -1,
             mode |-> "wb", pos |-> 0, ino |-> 0,
             vdir |-> FALSE, man |-> FALSE, svc |-> FALSE, nmod |-> 0,
             idx |-> 0, cur0 |-> NoV, prev0 |-> NoV,
             lvl |-> 0, rbv |-> NoV, act |-> FALSE, rep |-> "none",
             sfail |-> FALSE, pcmd |-> FALSE]

IsDownload(t, pc) == tasks[t].kind = "download" /\ tasks[t].pc = pc

\* No synchronous section of another coroutine is in progress.
CanRun == up /\ vm.op = "idle"

\* The inode a newly created package file gets: one no open handle refers to.
FreshIno ==
    CHOOSE i \in 0..MaxTasks :
        /\ \A u \in TaskIds : tasks[u].pc = "dl_body" => tasks[u].ino # i
        /\ \A j \in 0..MaxTasks :
              (\A u \in TaskIds : tasks[u].pc = "dl_body" => tasks[u].ino # j)
                  => i <= j

\* download_package, lines 54-92: the preflight on an existing file and the
\* first status, up to the await of the HTTP request.
DownloadStart(t) ==
    /\ CanRun
    /\ IsDownload(t, "pending")
    /\ LET d == tasks[t]
           same == /\ pstate # NoRec
                   /\ pstate.version = d.ver
                   /\ pstate.md5 = d.md5
           resumed == IF file.ex /\ same THEN Len(file.data) ELSE 0
       IN  /\ IF file.ex /\ ~same
              THEN /\ file' = NoFile
                   /\ IF pstate # NoRec
                      THEN DeleteState
                      ELSE UNCHANGED <<disk, pstate>>
              ELSE UNCHANGED <<file, disk, pstate>>
           /\ UpdateStatus("downloading", Pct(resumed, d.size), "none")
           /\ tasks' = [tasks EXCEPT ![t].pc = "dl_connect",
                                     ![t].bytes = resumed]
    /\ UNCHANGED <<vmVars, env>>

\* The handler of lines 117-126 (any exception that is no ValueError), and
\* _download_workflow's own except of routes.py lines 366-368: the task ends.
DownloadFailed(t) ==
    /\ UpdateStatus("failed", 0, "DOWNLOAD_FAILED")
    /\ tasks' = [tasks EXCEPT ![t] = TaskNone]
    /\ UNCHANGED <<vmVars, pstate, disk, file, env>>

\* _download_with_resume, lines 201-219: the response arrives (or the request
\* fails, or raise_for_status raises); Content-Length is cl, -1 when the
\* server sends none; the file is opened "ab" when resuming, else "wb".
DownloadResponse(t) ==
    /\ CanRun
    /\ IsDownload(t, "dl_connect")
    /\ \/ DownloadFailed(t)
       \/ \E cl \in -1..MaxFile :
            LET d == tasks[t]
                exp == IF cl = -1 THEN -1
                       ELSE IF d.bytes > 0 THEN cl + d.bytes ELSE cl
                md == IF d.bytes > 0 THEN "ab" ELSE "wb"
                f == IF file.ex
                     THEN IF md = "wb"
                          THEN [file EXCEPT !.data = <<>>, !.src = d.ver]
                          ELSE file
                     ELSE [ex |-> TRUE, data |-> <<>>, ino |-> FreshIno,
                           src |-> d.ver]
            IN  /\ file' = f
                /\ tasks' = [tasks EXCEPT ![t].pc = "dl_body",
                                          ![t].expected = exp,
                                          ![t].mode = md,
                                          ![t].pos = 0,
                                          ![t].last = -1,
                                          ![t].ino = f.ino]
                /\ UNCHANGED <<vmVars, smVars, env>>

\* f.write(chunk) through the handle of task record d: "ab" appends, "wb"
\* writes at the handle's own position (a gap reads as zeros); a handle on
\* an unlinked file writes nothing anyone can see.
WriteChunk(d, b) ==
    IF ~(file.ex /\ file.ino = d.ino) THEN file
    ELSE IF d.mode = "ab" \/ d.pos >= Len(file.data)
         THEN [file EXCEPT !.data =
                  file.data
                  \o [i \in 1..(IF d.mode = "ab" THEN 0
                                ELSE d.pos - Len(file.data)) |-> 0]
                  \o <<b>>]
         ELSE [file EXCEPT !.data[d.pos + 1] = b]

\* _download_with_resume, lines 221-249: one chunk is received and written;
\* every 5 % the status and the resume record are written.
DownloadChunk(t) ==
    /\ CanRun
    /\ IsDownload(t, "dl_body")
    /\ tasks[t].bytes < MaxFile
    /\ \E b \in Bytes :
         LET d == tasks[t]
             n == d.bytes + 1
             cur == Pct(n, d.size)
             step == cur >= d.last + ProgressStep
         IN  /\ file' = WriteChunk(d, b)
             /\ tasks' = [tasks EXCEPT ![t].bytes = n,
                                       ![t].pos = d.pos + 1,
                                       ![t].last = IF step THEN cur ELSE d.last]
             /\ IF step
                THEN /\ UpdateStatus("downloading", cur, "none")
                     /\ SaveState([version |-> d.ver, size |-> d.size,
                                   md5 |-> d.md5, bytes |-> n,
                                   stage |-> "downloading",
                                   verified |-> "none"])
                ELSE UNCHANGED smVars
    /\ UNCHANGED <<vmVars, env>>

\* The body stream raises (connection lost, timeout): lines 117-126.
DownloadStreamError(t) ==
    /\ CanRun
    /\ IsDownload(t, "dl_body")
    /\ DownloadFailed(t)

\* The size validations of lines 256-277: the ValueError raised, or "none".
SizeError(d) ==
    IF d.expected # -1 /\ d.bytes # d.expected THEN "INCOMPLETE_DOWNLOAD"
    ELSE IF d.bytes # d.size THEN "PACKAGE_SIZE_MISMATCH"
    ELSE "none"

\* A verification that accepts whatever file it finds.
Md5Matches_Skipped(d) == TRUE

\* verify_md5_or_raise(target_path, package_md5), verification.py lines 94-98
Md5Matches(d) == Md5(file.data) = d.md5

\* The stream ends: the validations of lines 251-279, then download_package
\* lines 104-116 (validation error) or 128-172 (MD5 check).  All of it is
\* synchronous; the task ends whatever the outcome.
DownloadFinish(t) ==
    /\ CanRun
    /\ IsDownload(t, "dl_body")
    /\ LET d == tasks[t]
       IN  IF SizeError(d) # "none"
           THEN /\ file' = NoFile
                /\ DeleteState
                /\ UpdateStatus("failed", 0, SizeError(d))
           ELSE IF ~file.ex
           THEN \* FileNotFoundError is no ValueError: nothing handles it
                /\ UpdateStatus("verifying", 0, "none")
                /\ UNCHANGED <<file, pstate, disk>>
           ELSE IF ~Md5Matches(d)
           THEN /\ file' = NoFile
                /\ SaveState([version |-> d.ver, size |-> d.size,
                              md5 |-> d.md5, bytes |-> 0,
                              stage |-> "failed", verified |-> "none"])
                /\ UpdateStatus("failed", 0, "MD5_MISMATCH")
           ELSE /\ UpdateStatus("toInstall", 100, "none")
                /\ UNCHANGED <<file, pstate, disk>>
    /\ tasks' = [tasks EXCEPT ![t] = TaskNone]
    /\ UNCHANGED <<vmVars, env>>

\* ------------------------------------------------------------- reporter
\* What the POST of report_progress meets, reporter.py lines 68-74: an
\* answer while the orchestrator is up; otherwise an error status
\* (raise_for_status), no connection, a timeout, or an exception that is no
\* httpx.HTTPError.
ReportOutcomes ==
    IF orch = "up" THEN {"ok"}
    ELSE {"status", "connect", "timeout", "unexpected"}

\* A reporter without its except clauses.
ReportRaises_Propagates(o) == o # "ok"

\* report_progress, lines 68-86: except httpx.HTTPError takes the three
\* transport errors, except Exception takes the rest.
ReportRaises(o) ==
    /\ o # "ok"
    /\ o \notin {"status", "connect", "timeout"}
    /\ o # "unexpected"

\* The report awaited last has returned after outcome o / has raised.
ReportReturned(o) == orch' = orch
ReportRaised == orch' = "raised"

\* ----------------------------------------------------------- installer
IsUpdate(t, pc) == tasks[t].kind = "update" /\ tasks[t].pc = pc

\* The task of slot t ends.
TaskEnds(t) == tasks' = [tasks EXCEPT ![t] = TaskNone]

\* _update_workflow's handler, routes.py lines 395-401: the task ends failed.
UpdateFailed(t) ==
    /\ UpdateStatus("failed", 0, "UPDATE_FAILED")
    /\ TaskEnds(t)

\* _update_workflow, routes.py lines 373-388, and deploy_package up to its
\* try, deploy.py lines 86-99; the report of line 95 stands before the try,
\* so if it raised the workflow's handler would run.
UpdateStart(t) ==
    /\ CanRun
    /\ IsUpdate(t, "pending")
    /\ IF pstate = NoRec \/ ~file.ex
       THEN UpdateFailed(t) /\ UNCHANGED orch
       ELSE \E o \in ReportOutcomes :
              IF ReportRaises(o)
              THEN UpdateFailed(t) /\ ReportRaised
              ELSE /\ UpdateStatus("installing", 0, "none")
                   /\ tasks' = [tasks EXCEPT
                          ![t].pc = "in_create",
                          ![t].cur0 = GetVersion("current"),
                          ![t].prev0 = GetVersion("previous")]
                   /\ ReportReturned(o)
    /\ UNCHANGED <<vmVars, pstate, disk, file, proc>>

\* A handler that removes versions/v<version> whoever created it.
DeployFails_RemoveAlways(t, code) ==
    /\ dirs' = dirs \ {tasks[t].ver}
    /\ tasks' = [tasks EXCEPT ![t].pc = "h_report", ![t].rep = "failed",
                              ![t].sfail = FALSE, ![t].pcmd = FALSE]

\* deploy_package's handler, lines 235-255: the snapshot directory this
\* install created is removed and report_progress(FAILED, ...) is called; its
\* answer is awaited next.  The field rep of a task is the terminal stage it
\* has reported to device-api so far; download.py holds no call of the
\* reporter, and _update_workflow's own handler makes none either.
DeployFails(t, code) ==
    /\ dirs' = IF tasks[t].vdir THEN dirs \ {tasks[t].ver} ELSE dirs
    /\ tasks' = [tasks EXCEPT ![t].pc = "h_report", ![t].rep = "failed",
                              ![t].sfail = FALSE, ![t].pcmd = FALSE]

\* Steps 1 and 2, lines 105-123, then the start of step 3 or 4.  What the
\* package holds is the environment's choice: no readable manifest, or a
\* manifest of version mv (NoV: some other version) with nm modules (one of
\* counts), with services (sv) or without, and (pc, one of cmds) with or
\* without a module whose post_cmds (manifest.py line 28) hold a command
\* that exits non-zero.  Nothing in deploy_package reads post_cmds.
DeployCreateAndParseOf(t, counts, cmds) ==
    /\ CanRun
    /\ IsUpdate(t, "in_create")
    /\ LET d == tasks[t]
       IN  IF d.ver \in dirs
           THEN /\ DeployFails(t, "ALREADY_EXISTS")
                /\ UNCHANGED <<stage, progress, error, orch>>
           ELSE \/ /\ dirs' = dirs
                   /\ tasks' = [tasks EXCEPT ![t].pc = "h_report",
                                             ![t].rep = "failed"]
                   /\ UNCHANGED <<stage, progress, error, orch>>
                \/ \E mv \in {d.ver, NoV}, nm \in counts, sv \in BOOLEAN,
                        pc \in cmds :
                     IF mv # d.ver
                     THEN /\ dirs' = dirs
                          /\ tasks' = [tasks EXCEPT
                                 ![t].pc = "h_report", ![t].rep = "failed",
                                 ![t].man = TRUE,
                                 ![t].svc = sv, ![t].nmod = nm]
                          /\ UNCHANGED <<stage, progress, error, orch>>
                     ELSE IF ~sv
                     THEN /\ dirs' = dirs \cup {d.ver}
                          /\ tasks' = [tasks EXCEPT
                                 ![t].pc = "in_module",
                                 ![t].vdir = TRUE, ![t].man = TRUE,
                                 ![t].svc = sv, ![t].nmod = nm, ![t].idx = 1,
                                 ![t].pcmd = pc]
                          /\ UNCHANGED <<stage, progress, error, orch>>
                     ELSE \* lines 129-145: progress 5 is written and reported
                          /\ UpdateStatus("installing", 5, "none")
                          /\ \E o \in ReportOutcomes :
                               IF ReportRaises(o)
                               THEN /\ dirs' = dirs
                                    /\ tasks' = [tasks EXCEPT
                                           ![t].pc = "h_report",
                                           ![t].rep = "failed",
                                           ![t].man = TRUE,
                                           ![t].svc = sv, ![t].nmod = nm]
                                    /\ ReportRaised
                               ELSE /\ dirs' = dirs \cup {d.ver}
                                    /\ tasks' = [tasks EXCEPT
                                           ![t].pc = "in_stop",
                                           ![t].vdir = TRUE, ![t].man = TRUE,
                                           ![t].svc = sv, ![t].nmod = nm,
                                           ![t].idx = 0, ![t].pcmd = pc]
                                    /\ ReportReturned(o)
    /\ UNCHANGED <<links, tmp, vm, pstate, disk, file, proc>>

DeployCreateAndParse(t) == DeployCreateAndParseOf(t, 1..MaxModules, {FALSE})

\* Step 3, line 147 and _stop_services, lines 441-459: every service stops
\* and the module loop of line 151 begins with idx 1, or one does not stop
\* and RuntimeError(SERVICE_STOP_FAILED) is raised.
DeployStopServices(t) ==
    /\ CanRun
    /\ IsUpdate(t, "in_stop")
    /\ \/ /\ tasks' = [tasks EXCEPT ![t].pc = "in_module", ![t].idx = 1]
          /\ UNCHANGED dirs
       \/ DeployFails(t, "SERVICE_STOP_FAILED")
    /\ UNCHANGED <<links, tmp, vm, smVars, file, env>>

\* int((idx / total_modules) * 80), line 152
ModuleProgress(idx, n) == (idx * 80) \div n

\* Step 4, lines 150-173, one module: its progress is written, and reported
\* if it is a multiple of 10 or there are fewer than 10 modules, then its
\* file is extracted into the snapshot (or the extraction raises).
DeployModule(t) ==
    /\ CanRun
    /\ IsUpdate(t, "in_module")
    /\ LET d == tasks[t]
           pr == ModuleProgress(d.idx, d.nmod)
       IN  /\ UpdateStatus("installing", pr, "none")
           /\ \E o \in (IF pr % 10 = 0 \/ d.nmod < 10 THEN ReportOutcomes
                       ELSE {"ok"}) :
                IF ReportRaises(o)
                THEN DeployFails(t, "REPORT") /\ ReportRaised
                ELSE /\ ReportReturned(o)
                     /\ \/ /\ tasks' = [tasks EXCEPT
                                  ![t].idx = d.idx + 1,
                                  ![t].pc = IF d.idx < d.nmod THEN "in_module"
                                            ELSE IF d.svc THEN "in_start"
                                            ELSE "in_verify"]
                           /\ UNCHANGED dirs
                        \/ DeployFails(t, "MODULE_FAILED")
    /\ UNCHANGED <<links, tmp, vm, pstate, disk, file, proc>>

\* What start_service and wait_for_service_status(ACTIVE, timeout=30) do for
\* the services of the package, lines 478-489: all become active, or one
\* raises, or one is not active within the timeout.
StartOutcomes == {"active", "error", "timeout"}

\* A start loop without the except clause of line 491.
StartAborts_Raises(st) == st # "active"

\* _start_services, lines 491-495: except Exception logs, the loop goes on
\* with the next service and nothing is raised.
StartAborts(st) == FALSE

\* Step 5, lines 177-195 and _start_services, lines 472-495: a service that
\* does not start is logged and the install goes on (sfail remembers it).
DeployStartServices(t) ==
    /\ CanRun
    /\ IsUpdate(t, "in_start")
    /\ UpdateStatus("installing", 85, "none")
    /\ \E o \in ReportOutcomes :
         IF ReportRaises(o)
         THEN DeployFails(t, "REPORT") /\ ReportRaised
         ELSE /\ ReportReturned(o)
              /\ \E st \in StartOutcomes :
                   IF StartAborts(st)
                   THEN DeployFails(t, "SERVICE_START_FAILED")
                   ELSE /\ tasks' = [tasks EXCEPT
                                ![t].pc = "in_verify",
                                ![t].sfail = (st # "active")]
                        /\ UNCHANGED dirs
    /\ UNCHANGED <<links, tmp, vm, pstate, disk, file, proc>>

\* Steps 6 and 7, lines 198-216: the deployed files are checked (a missing
\* or wrongly sized file raises; none is there without the snapshot
\* directory), then promote_version is called.
DeployVerifyAndPromote(t) ==
    /\ CanRun
    /\ IsUpdate(t, "in_verify")
    /\ UpdateStatus("installing", 95, "none")
    /\ \E o \in ReportOutcomes :
         IF ReportRaises(o)
         THEN DeployFails(t, "REPORT") /\ ReportRaised /\ UNCHANGED vm
         ELSE /\ ReportReturned(o)
              /\ \/ /\ tasks[t].ver \in dirs
                    /\ vm' = VmEnter("promote", tasks[t].ver, t)
                    /\ tasks' = [tasks EXCEPT ![t].pc = "in_promote"]
                    /\ UNCHANGED dirs
                 \/ /\ DeployFails(t, "VERIFY_FAILED")
                    /\ UNCHANGED vm
    /\ UNCHANGED <<links, tmp, pstate, disk, file, proc>>

\* promote_version has returned, lines 217-233 (step 8), or raised, and then
\* the handler of line 235 runs.
DeployPromoted(t) ==
    /\ up
    /\ IsUpdate(t, "in_promote")
    /\ vm.pc = "done" /\ vm.caller = t
    /\ vm' = VmIdle
    /\ IF vm.err = "none"
       THEN /\ UpdateStatus("success", 100, "none")
            /\ \E o \in ReportOutcomes :
                 IF ReportRaises(o)
                 THEN DeployFails(t, "REPORT") /\ ReportRaised
                 ELSE /\ tasks' = [tasks EXCEPT ![t].pc = "in_done",
                                                ![t].rep = "success"]
                      /\ ReportReturned(o)
                      /\ UNCHANGED dirs
       ELSE /\ DeployFails(t, "PROMOTE_FAILED")
            /\ UNCHANGED <<stage, progress, error, orch>>
    /\ UNCHANGED <<links, tmp, pstate, disk, file, proc>>

\* deploy_package has returned: _update_workflow's cleanup, routes.py line 393.
UpdateCleanup(t) ==
    /\ CanRun
    /\ IsUpdate(t, "in_done")
    /\ DeleteState
    /\ TaskEnds(t)
    /\ UNCHANGED orch
    /\ UNCHANGED <<vmVars, stage, progress, error, file, proc>>

\* verify_services_healthy, deploy.py lines 713-746: healthy without
\* services; with services, wait_for_service_status is handed the string
\* "active" and evaluates target_status.value (process.py line 274), which
\* raises for every service, so the answer is False.
VerifyServicesHealthy(hasServices) == ~hasServices

\* A handler that rolls back whatever the install had reached.
RollbackWanted_Always(t) == TRUE

\* deploy.py line 259: if manifest is not None
RollbackWanted(t) == tasks[t].man

\* The failure report of line 250 has been awaited; raising, it would leave
\* the handler for _update_workflow's.  Without a manifest the rollback is
\* skipped and line 270 raises into _update_workflow's handler; with one,
\* perform_two_level_rollback starts Level 1.
HandlerReported(t) ==
    /\ CanRun
    /\ IsUpdate(t, "h_report")
    /\ \E o \in ReportOutcomes :
         IF ReportRaises(o)
         THEN UpdateFailed(t) /\ ReportRaised
         ELSE IF RollbackWanted(t)
              THEN /\ tasks' = [tasks EXCEPT ![t].pc = "rb_stop",
                                             ![t].lvl = 1]
                   /\ ReportReturned(o)
                   /\ UNCHANGED <<stage, progress, error>>
              ELSE UpdateFailed(t) /\ UNCHANGED orch
    /\ UNCHANGED <<vmVars, pstate, disk, file, proc>>

\* A rollback that gives up after Level 1.
LevelFailed_GiveUp(t) == UpdateFailed(t) /\ UNCHANGED orch

\* A rollback level has raised: its handler reports the failure (lines 609,
\* 689) and raises, whatever becomes of that report; then
\* perform_two_level_rollback goes on to Level 2 (line 790), or reports and
\* raises for both (lines 803-815) into _update_workflow's handler.
LevelFailed(t) ==
    \E o \in ReportOutcomes :
      IF tasks[t].lvl = 1
      THEN /\ tasks' = [tasks EXCEPT ![t].pc = "rb_stop", ![t].lvl = 2,
                                     ![t].act = FALSE]
           /\ IF ReportRaises(o) THEN ReportRaised ELSE ReportReturned(o)
           /\ UNCHANGED <<stage, progress, error>>
      ELSE /\ UpdateFailed(t)
           /\ IF ReportRaises(o) THEN ReportRaised ELSE UNCHANGED orch

\* rollback_to_previous / rollback_to_factory, lines 556-574 and 636-654:
\* the start of the level has been reported (before the try: raising, the
\* report would fail the level); the services are stopped (or one is not),
\* then the link is repointed.
RollbackStopAndLink(t) ==
    /\ CanRun
    /\ IsUpdate(t, "rb_stop")
    /\ \E o \in ReportOutcomes :
         IF ReportRaises(o)
         THEN /\ IF tasks[t].lvl = 1
                 THEN /\ tasks' = [tasks EXCEPT ![t].lvl = 2]
                      /\ UNCHANGED <<stage, progress, error>>
                 ELSE UpdateFailed(t)
              /\ ReportRaised
              /\ UNCHANGED vm
         ELSE \/ /\ tasks[t].svc
                 /\ LevelFailed(t)
                 /\ UNCHANGED vm
              \/ /\ vm' = VmEnter(IF tasks[t].lvl = 1 THEN "rb_previous"
                                  ELSE "rb_factory", NoV, t)
                 /\ tasks' = [tasks EXCEPT ![t].pc = "rb_link"]
                 /\ ReportReturned(o)
                 /\ UNCHANGED <<stage, progress, error>>
    /\ UNCHANGED <<dirs, links, tmp, pstate, disk, file, proc>>

\* The VersionManager call of line 574 or 654 has returned or raised.  After
\* it the services are restarted (lines 578-580, 658-660); act tells whether
\* all of them then report active, which is for systemd to decide.
RollbackLinked(t) ==
    /\ up
    /\ IsUpdate(t, "rb_link")
    /\ vm.pc = "done" /\ vm.caller = t
    /\ vm' = VmIdle
    /\ IF vm.err = "none"
       THEN /\ \E a \in (IF tasks[t].svc THEN BOOLEAN ELSE {TRUE}) :
                 tasks' = [tasks EXCEPT ![t].pc = "rb_health",
                                        ![t].rbv = vm.v, ![t].act = a]
            /\ UNCHANGED <<stage, progress, error, orch>>
       ELSE LevelFailed(t)
    /\ UNCHANGED <<dirs, links, tmp, pstate, disk, file, proc>>

\* Lines 578-603 and 658-683: services restarted, health verified.  A healthy
\* level reports its success (inside the try: raising, the report would fail
\* the level) and returns, and deploy_package raises DEPLOYMENT_FAILED at
\* line 270.
RollbackHealth(t) ==
    /\ CanRun
    /\ IsUpdate(t, "rb_health")
    /\ IF VerifyServicesHealthy(tasks[t].svc)
       THEN \E o \in ReportOutcomes :
              IF ReportRaises(o)
              THEN /\ IF tasks[t].lvl = 1
                      THEN /\ tasks' = [tasks EXCEPT ![t].pc = "rb_stop",
                                                     ![t].lvl = 2,
                                                     ![t].act = FALSE]
                           /\ UNCHANGED <<stage, progress, error>>
                      ELSE UpdateFailed(t)
                   /\ ReportRaised
              ELSE UpdateFailed(t) /\ UNCHANGED orch
       ELSE LevelFailed(t)
    /\ UNCHANGED <<vmVars, pstate, disk, file, proc>>

UpdateStep(t) ==
    \/ UpdateStart(t)
    \/ DeployCreateAndParse(t)
    \/ DeployStopServices(t)
    \/ DeployModule(t)
    \/ DeployStartServices(t)
    \/ DeployVerifyAndPromote(t)
    \/ DeployPromoted(t)
    \/ UpdateCleanup(t)
    \/ HandlerReported(t)
    \/ RollbackStopAndLink(t)
    \/ RollbackLinked(t)
    \/ RollbackHealth(t)

\* --------------------------------------------------- routes and lifespan
\* The package_md5 requests declare: the digest of a file of PkgSize bytes.
ReqMd5s == {Md5([i \in 1..PkgSize |-> 0])}
\* The versions download requests name.
ReqVersions == {NVersions - 1, NVersions}
\* The package of the newest version is PkgSize bytes long, the other one is
\* too long for the model to receive in full.
SizeOf(v) == IF v = NVersions THEN PkgSize ELSE BigSize
DownloadRequests ==
    {[ver |-> v, size |-> SizeOf(v), md5 |-> m] : v \in ReqVersions, m \in ReqMd5s}

\* StateManager.get_status, lines 50-61: ProgressData (api/models.py line 78)
\* rejects a progress outside 0..100, and the request then ends as HTTP 500.
GetStatusRaises == progress < 0 \/ progress > 100

\* post_download, routes.py lines 181-222: the application code returned.
PostDownloadCode ==
    IF GetStatusRaises THEN 500
    ELSE IF stage \notin {"idle", "failed", "success"} THEN 409
    ELSE IF pstate # NoRec /\ IsExpired(pstate) THEN 410
    ELSE 200

\* post_update, routes.py lines 301-345
PostUpdateCode(v) ==
    IF GetStatusRaises THEN 500
    ELSE IF stage \notin {"idle", "toInstall", "success", "failed"} THEN 409
    ELSE IF pstate = NoRec \/ pstate.version # v THEN 404
    ELSE IF IsExpired(pstate) THEN 410
    ELSE 200

\* POST /download: on 200 the workflow is queued as a background task, which
\* starts after the response has been sent.
PostDownload(r) ==
    /\ CanRun
    /\ IF PostDownloadCode = 200
       THEN /\ ncmd < MaxTasks
            /\ ncmd' = ncmd + 1
            /\ tasks' = [tasks EXCEPT ![ncmd + 1] =
                  [TaskNone EXCEPT !.kind = "download", !.pc = "pending",
                                   !.ver = r.ver, !.size = r.size,
                                   !.md5 = r.md5]]
       ELSE UNCHANGED <<tasks, ncmd>>
    /\ UNCHANGED <<vmVars, smVars, file, up, atKill, orch>>

\* POST /update
PostUpdate(v) ==
    /\ CanRun
    /\ IF PostUpdateCode(v) = 200
       THEN /\ ncmd < MaxTasks
            /\ ncmd' = ncmd + 1
            /\ tasks' = [tasks EXCEPT ![ncmd + 1] =
                  [TaskNone EXCEPT !.kind = "update", !.pc = "pending",
                                   !.ver = v]]
       ELSE UNCHANGED <<tasks, ncmd>>
    /\ UNCHANGED <<vmVars, smVars, file, up, atKill, orch>>

\* _download_workflow as routes.py lines 356-357 construct the service:
\* DownloadService(reporter=reporter) against __init__(self, state_manager=None)
\* (download.py line 20) raises TypeError before the try block is entered, so
\* the task ends by raising and nothing else happens.
DownloadWorkflowRaises(t) ==
    /\ CanRun
    /\ IsDownload(t, "pending")
    /\ tasks' = [tasks EXCEPT ![t] = TaskNone]
    /\ UNCHANGED <<vmVars, smVars, file, env>>

\* StateManager.reset, lines 142-147
Reset == UpdateStatus("idle", 0, "none") /\ pstate' = NoRec

\* A load_state that leaves the unreadable file where it is.
LoadStateFails_Kept == UNCHANGED <<disk, pstate>>

\* load_state's handler, state_manager.py lines 103-107: json.load or
\* StateFile(**data) has raised; the file is unlinked, None is returned and
\* the cached record stays as it was.
LoadStateFails == disk' = NoRec /\ UNCHANGED pstate

\* lifespan's startup, main.py lines 43-116, with load_state (state_manager.py
\* lines 92-107) and the cleanup branches' unlink, delete_state and reset.
Lifespan ==
    /\ ~up
    /\ up' = TRUE
    /\ atKill' = "none"
    /\ IF disk = NoRec
       THEN UNCHANGED <<smVars, file>>
       ELSE IF disk = Corrupt
       THEN /\ LoadStateFails
            /\ UNCHANGED <<stage, progress, error, file>>
       ELSE IF \/ IsExpired(disk)
               \/ disk.stage \in {"downloading", "verifying"}
               \/ disk.stage # "failed" /\ disk.bytes > disk.size
       THEN /\ file' = NoFile
            /\ disk' = NoRec
            /\ Reset
       ELSE /\ pstate' = disk
            /\ IF disk.stage = "failed"
               THEN UpdateStatus("failed", 0, "SEE_LOGS")
               ELSE UpdateStatus(disk.stage, Pct(disk.bytes, disk.size), "none")
            /\ UNCHANGED <<disk, file>>
    /\ UNCHANGED <<vmVars, tasks, ncmd, orch>>

\* What a kill leaves of state.json: the file as it is, or, when the kill
\* falls into the save_state of a receiving download (state_manager.py lines
\* 117-118 truncate the file and then write it), an incomplete document.
DiskAfterKill ==
    {disk} \cup
    (IF \E t \in TaskIds : tasks[t].kind = "download" /\ tasks[t].pc = "dl_body"
     THEN {Corrupt} ELSE {})

\* The process is killed (power loss, SIGKILL, systemd restart) and started
\* again: every task and everything in memory is gone, the files stay as they
\* are, and the new process is the one StateManager.__init__ builds
\* (state_manager.py lines 38-45) until its lifespan has run.
Restart ==
    /\ up
    /\ up' = FALSE
    /\ atKill' = stage
    /\ stage' = "idle" /\ progress' = 0 /\ error' = "none"
    /\ pstate' = NoRec
    /\ tasks' = [t \in TaskIds |-> TaskNone]
    /\ vm' = VmIdle
    /\ disk' \in DiskAfterKill
    /\ UNCHANGED <<dirs, links, tmp, file, ncmd, orch>>

\* 24 hours pass: a verification time that was inside the window of
\* is_package_expired (models/state.py lines 50-52) is now outside it.
Age(r) == IF r \notin {NoRec, Corrupt} /\ r.verified = "fresh"
          THEN [r EXCEPT !.verified = "old"] ELSE r

Expire ==
    /\ Age(pstate) # pstate \/ Age(disk) # disk
    /\ pstate' = Age(pstate)
    /\ disk' = Age(disk)
    /\ UNCHANGED <<vmVars, stage, progress, error, file, tasks, env>>

\* ------------------------------------------------------ the whole agent
\* StateManager.__init__, state_manager.py lines 38-45, in a process whose
\* lifespan has not run yet and that has no task.
InitProcess ==
    /\ stage = "idle" /\ progress = 0 /\ error = "none"
    /\ pstate = NoRec
    /\ tasks = [t \in TaskIds |-> TaskNone]
    /\ up = FALSE
    /\ ncmd = 0
    /\ atKill = "none"

\* The version store a device starts with: empty, one version, an upgraded
\* device, and the same with a factory version set.
Layout(d, c, p, f) ==
    [dirs |-> d, links |-> [current |-> c, previous |-> p, factory |-> f]]
InitLayouts ==
    { Layout({}, NoV, NoV, NoV), Layout({1}, 1, NoV, NoV),
      Layout({1, 2}, 2, 1, NoV), Layout({1}, 1, NoV, 1),
      Layout({1, 2}, 2, 1, 1) }

\* A package file of PkgSize bytes whose digest is m.
GoodFile(m) ==
    [ex |-> TRUE, ino |-> 0, src |-> NVersions,
     data |-> CHOOSE d \in [1..PkgSize -> Bytes] : Md5(d) = m]

\* ./tmp as the starting process finds it: nothing, an unreadable state.json,
\* or a verified package waiting with its record, verified less or more than
\* 24 hours ago.
InitStores ==
    { [disk |-> NoRec, file |-> NoFile], [disk |-> Corrupt, file |-> NoFile] }
    \cup
    { [disk |-> [version |-> v, size |-> PkgSize, md5 |-> m,
                 bytes |-> PkgSize, stage |-> "toInstall", verified |-> a],
       file |-> GoodFile(m)] :
         v \in {NVersions}, m \in ReqMd5s, a \in {"fresh", "old"} }

InitDevice ==
    /\ \E y \in InitLayouts : dirs = y.dirs /\ links = y.links
    /\ tmp = [l \in LinkNames |-> NoV]
    /\ vm = VmIdle
    /\ InitProcess
    /\ \E s \in InitStores : disk = s.disk /\ file = s.file

Init == InitDevice /\ orch = "up"

DownloadStep(t) ==
    \/ DownloadResponse(t)
    \/ DownloadChunk(t)
    \/ DownloadStreamError(t)
    \/ DownloadFinish(t)

Serve ==
    \/ Restart
    \/ Lifespan
    \/ Expire
    \/ \E r \in DownloadRequests : PostDownload(r)
    \/ \E v \in Versions : PostUpdate(v)
    \/ \E t \in TaskIds : UpdateStep(t)
    \/ VmStep

\* The agent with its download task entering download_package, which is how
\* DownloadService() constructed as its __init__ allows behaves.
Next ==
    \/ Serve
    \/ \E t \in TaskIds : DownloadStart(t)
    \/ \E t \in TaskIds : DownloadStep(t)

Spec == Init /\ [][Next]_vars

\* The agent exactly as routes.py wires it.
NextWired ==
    \/ Serve
    \/ \E t \in TaskIds : DownloadWorkflowRaises(t)

SpecWired == Init /\ [][NextWired]_vars

\* The agent with the orchestrator up or down, under a client that sends a
\* command only when no task is left from the one before.
InitReport == InitDevice /\ orch \in {"up", "down"}

NextReport ==
    Next /\ Cardinality({t \in TaskIds : tasks'[t].kind # "none"}) <= 1

SpecReport == InitReport /\ [][NextReport]_vars

\* The same client, and packages of up to ManyModules modules, with or
\* without failing post_cmds.
NextModules ==
    /\ \/ Next
       \/ \E t \in TaskIds :
            DeployCreateAndParseOf(t, {1, ManyModules}, BOOLEAN)
    /\ Cardinality({t \in TaskIds : tasks'[t].kind # "none"}) <= 1

SpecModules == Init /\ [][NextModules]_vars

\* ------------------------------------------- the version store, driven
\* create_version_dir(v), lines 57-65
CreateVersionDir(v) ==
    /\ vm.op = "idle"
    /\ v \notin dirs
    /\ dirs' = dirs \cup {v}
    /\ UNCHANGED <<links, tmp, vm>>
    /\ UNCHANGED others

\* A direct call of one of the link operations of VersionManager.
VmCall(op, v) ==
    /\ vm.op = "idle"
    /\ vm' = VmEnter(op, v, 0)
    /\ UNCHANGED <<dirs, links, tmp>>
    /\ UNCHANGED others

\* A delete_version that protects the running version only.
DeleteVersionErr_CurrentOnly(v) ==
    IF v = GetVersion("current") THEN "ValueError"
    ELSE IF v \notin dirs THEN "FileNotFoundError"
    ELSE "none"

\* delete_version(v), lines 315-327: what it raises
DeleteVersionErr(v) ==
    IF \/ v = GetVersion("current")
       \/ v = GetVersion("previous")
       \/ v = GetVersion("factory")
    THEN "ValueError"
    ELSE IF v \notin dirs THEN "FileNotFoundError"
    ELSE "none"

\* delete_version(v), lines 299-331, called directly
DeleteVersion(v) ==
    /\ vm.op = "idle"
    /\ LET e == DeleteVersionErr(v)
       IN  /\ dirs' = IF e = "none" THEN dirs \ {v} ELSE dirs
           /\ vm' = [VmIdle EXCEPT !.op = "delete", !.v = v, !.pc = "done",
                                   !.cur0 = links["current"], !.err = e]
    /\ UNCHANGED <<links, tmp>>
    /\ UNCHANGED others

\* create_factory_version, line 377: copytree raises if v<version>
\* exists; it may also fail on the way, with or without a partial copy.
CfCopy ==
    /\ vm.pc = "cf_copy"
    /\ \/ /\ vm.v \notin dirs
          /\ dirs' = dirs \cup {vm.v}
          /\ vm' = [vm EXCEPT !.pc = "cf_set"]
       \/ /\ dirs' \in (IF vm.v \in dirs THEN {dirs}
                        ELSE {dirs, dirs \cup {vm.v}})
          /\ vm' = [vm EXCEPT !.pc = "cf_cleanup"]
    /\ UNCHANGED <<links, tmp>>
    /\ UNCHANGED others

\* line 381: set_factory_version(version) on the copy
CfSetFactory ==
    /\ vm.pc = "cf_set"
    /\ vm' = CfSetFactoryEnter(vm)
    /\ UNCHANGED <<dirs, links, tmp>>
    /\ UNCHANGED others

\* line 384: _set_directory_readonly (lines 401-410) returns, or one of
\* its chmod calls raises.
CfReadonly ==
    /\ vm.pc = "cf_readonly"
    /\ \/ vm' = [vm EXCEPT !.pc = "done"]
       \/ vm' = [vm EXCEPT !.pc = "cf_cleanup"]
    /\ UNCHANGED <<dirs, links, tmp>>
    /\ UNCHANGED others

\* The handler, lines 389-393: v<version> is removed unless it is the
\* directory `current` resolved to; OSError is raised.
CfCleanup ==
    /\ vm.pc = "cf_cleanup"
    /\ dirs' = IF vm.v # vm.cur0 /\ vm.v \in dirs THEN dirs \ {vm.v} ELSE dirs
    /\ vm' = [vm EXCEPT !.pc = "done", !.err = "OSError"]
    /\ UNCHANGED <<links, tmp>>
    /\ UNCHANGED others

CreateFactoryStep == CfCopy \/ CfSetFactory \/ CfReadonly \/ CfCleanup

\* The call returns (or raises) to the direct caller.
VmReturn ==
    /\ vm.pc = "done"
    /\ vm.caller = 0
    /\ vm' = VmIdle
    /\ UNCHANGED <<dirs, links, tmp>>
    /\ UNCHANGED others

InitVM ==
    /\ dirs = {}
    /\ links = [l \in LinkNames |-> NoV]
    /\ tmp = [l \in LinkNames |-> NoV]
    /\ vm = VmIdle
    /\ InitProcess
    /\ orch = "up"
    /\ disk = NoRec
    /\ file = NoFile

NextVM ==
    \/ \E v \in Versions : CreateVersionDir(v)
    \/ \E v \in Versions : VmCall("promote", v)
    \/ VmCall("rb_previous", NoV)
    \/ VmCall("rb_factory", NoV)
    \/ \E v \in Versions : VmCall("set_factory", v)
    \/ \E v \in Versions : VmCall("create_factory", v)
    \/ \E v \in Versions : DeleteVersion(v)
    \/ CreateFactoryStep
    \/ VmStep
    \/ VmReturn

SpecVM == InitVM /\ [][NextVM]_vars

\* The agent under the client of SpecReport, with promote_version, the two
\* rollbacks and delete_version also called directly, one operation after
\* the other: a direct call is made while no download or install is alive.
NextOps ==
    \/ Next /\ Cardinality({t \in TaskIds : tasks'[t].kind # "none"}) <= 1
    \/ /\ up /\ \A t \in TaskIds : tasks[t].kind = "none"
       /\ \/ \E v \in Versions : VmCall("promote", v)
          \/ VmCall("rb_previous", NoV)
          \/ VmCall("rb_factory", NoV)
          \/ \E v \in Versions : DeleteVersion(v)
    \/ VmReturn

SpecOps == Init /\ [][NextOps]_vars

\* ------------------------------------------------ startup self-heal alone
\* lifespan is a function of the state.json it finds.  Here the starting
\* process finds any record a StateFile can hold: every stage, no bytes, all
\* bytes or more bytes than the package has, never verified or verified less
\* or more than 24 hours ago; with the package file or without it.
Stages ==
    {"idle", "downloading", "verifying", "toInstall", "installing",
     "rebooting", "success", "failed"}

BootRecords ==
    {NoRec, Corrupt} \cup
    { [version |-> NVersions, size |-> PkgSize, md5 |-> m, bytes |-> b,
       stage |-> s, verified |-> a] :
        m \in ReqMd5s, b \in {0, PkgSize, PkgSize + 1}, s \in Stages,
        a \in {"none", "fresh", "old"} }

InitBoot ==
    /\ \E y \in InitLayouts : dirs = y.dirs /\ links = y.links
    /\ tmp = [l \in LinkNames |-> NoV]
    /\ vm = VmIdle
    /\ InitProcess
    /\ orch = "up"
    /\ disk \in BootRecords
    /\ \E m \in ReqMd5s : file \in {NoFile, GoodFile(m)}

NextBoot ==
    \/ Lifespan
    \/ Restart
    \/ Expire

SpecBoot == InitBoot /\ [][NextBoot]_vars

\* ------------------------------------------- the state manager, driven
\* StateManager.load_state, state_manager.py lines 92-107: no file, None is
\* returned and the cache is left alone; an unreadable file is unlinked;
\* else the record is cached.
LoadState ==
    IF disk = NoRec THEN UNCHANGED <<disk, pstate>>
    ELSE IF disk = Corrupt THEN LoadStateFails
    ELSE pstate' = disk /\ UNCHANGED disk

\* One call of save_state, load_state, delete_state or reset on the
\* singleton, by whoever holds it.
SmCall ==
    /\ \/ \E r \in BootRecords \ {NoRec, Corrupt} :
               SaveState(r) /\ UNCHANGED <<stage, progress, error>>
       \/ LoadState /\ UNCHANGED <<stage, progress, error>>
       \/ DeleteState /\ UNCHANGED <<stage, progress, error>>
       \/ Reset /\ UNCHANGED disk
    /\ UNCHANGED <<vmVars, file, tasks, env>>

\* A started process with nothing cached yet, over whatever ./tmp holds.
InitSM ==
    /\ dirs = {} /\ links = [l \in LinkNames |-> NoV]
    /\ tmp = [l \in LinkNames |-> NoV]
    /\ vm = VmIdle
    /\ stage = "idle" /\ progress = 0 /\ error = "none"
    /\ pstate = NoRec
    /\ tasks = [t \in TaskIds |-> TaskNone]
    /\ up = TRUE /\ ncmd = 0 /\ atKill = "none" /\ orch = "up"
    /\ disk \in BootRecords
    /\ file = NoFile

SpecSM == InitSM /\ [][SmCall]_vars

\* ===================================================== properties: SpecVM
\* C9: while promote_version, rollback_to_previous or rollback_to_factory
\* repoints an existing `current` link, whoever resolves `current` at any
\* intermediate step finds the target it had when the call began or the new
\* target, never a missing link.
C9_ReaderSeesOldOrNew ==
    (vm.op \in {"promote", "rb_previous", "rb_factory"} /\ vm.cur0 # NoV)
        => links["current"] \in {vm.cur0, vm.v}

\* C9 witness: promote_version is between symlink_to and rename on an
\* existing `current` that is to move to another version.
C9_Witness ==
    /\ vm.op = "promote" /\ vm.link = "current" /\ vm.pc = "us_replace"
    /\ vm.cur0 # NoV /\ vm.cur0 # vm.v
    /\ tmp["current"] = vm.v

\* C10: a symlink update that has returned or raised leaves no
\* .<name>.tmp.<pid> entry, and one that raised leaves the link it was
\* updating on its previous target.
C10_NoTempLeftAndLinkKept ==
    /\ vm.pc \in {"idle", "done", "us_ret", "us_raised"}
            => \A l \in LinkNames : tmp[l] = NoV
    /\ vm.pc = "us_raised" => links[vm.link] = vm.old

\* C10 witness: update_symlink raised after its temporary link had been
\* created (the rename failed) on a link that existed.
C10_Witness ==
    /\ vm.pc = "us_raised" /\ vm.err = "OSError"
    /\ vm.old # NoV /\ vm.old # vm.target
    /\ links[vm.link] = vm.old
    /\ tmp[vm.link] = NoV

\* ======================================================= properties: Spec
Alive == {t \in TaskIds : tasks[t].kind # "none"}

\* C1: at most one OTA background task (download or update workflow) exists
\* at any time, from the acceptance of its command to its end.
C1_AtMostOneTask == Cardinality(Alive) <= 1

\* C2: an install of v that ends in stage success leaves `current` on v and
\* `previous` on the version `current` had when the install began; with no
\* `current` before, `previous` stays as it was.
C2_SuccessLinks ==
    [][\A t \in TaskIds :
         (IsUpdate(t, "in_promote") /\ tasks'[t].pc = "in_done") =>
            /\ GetVersion("current")' = tasks[t].ver
            /\ GetVersion("previous")' =
                  IF tasks[t].cur0 # NoV THEN tasks[t].cur0
                  ELSE tasks[t].prev0]_vars

\* C3: when an install has failed after its manifest was parsed and a
\* rollback level has succeeded, `current` is the version `previous` had
\* before the install or the factory version, and no snapshot directory of
\* the failed version exists.
C3_RolledBack ==
    [][\A t \in TaskIds :
         (IsUpdate(t, "rb_health") /\ tasks'[t] = TaskNone) =>
            /\ GetVersion("current")' \in
                  {tasks[t].prev0, GetVersion("factory")'} \ {NoV}
            /\ tasks[t].ver \notin dirs']_vars

\* C4: when a download completes (the stage becomes toInstall as
\* download_package returns), the package file exists, has exactly the
\* declared size and its MD5 is the declared one.
C4_CompleteIsVerified ==
    [][\A t \in TaskIds :
         (IsDownload(t, "dl_body") /\ tasks'[t] = TaskNone
            /\ stage' = "toInstall") =>
               /\ file'.ex
               /\ Len(file'.data) = tasks[t].size
               /\ Md5(file'.data) = tasks[t].md5]_vars

\* C4 witness: a download that found no record at startup has completed; the
\* record its chunks wrote is cached and the whole package is on disk.
C4_Witness ==
    /\ stage = "toInstall" /\ progress = 100
    /\ pstate # NoRec /\ pstate.stage = "downloading"
    /\ file.ex /\ Len(file.data) = PkgSize /\ Md5(file.data) \in ReqMd5s
    /\ Alive = {}

\* C5: POST /download is accepted iff the stage is idle, failed or success
\* and the cached record is absent or not expired; in any other stage the
\* answer is 409, and in an admissible stage with an expired record 410.
C5_DownloadAdmission ==
    LET adm == stage \in {"idle", "failed", "success"}
        exp == pstate # NoRec /\ IsExpired(pstate)
    IN  up => /\ (PostDownloadCode = 200) <=> (adm /\ ~exp)
              /\ ~adm => PostDownloadCode = 409
              /\ (adm /\ exp) => PostDownloadCode = 410

\* C6: POST /update(v) is accepted iff the stage is idle, toInstall, success
\* or failed and a cached record of version v exists that is not expired;
\* otherwise the answer is 409, else 404, else 410, in that precedence.
C6_UpdateAdmission ==
    LET adm == stage \in {"idle", "toInstall", "success", "failed"}
    IN  up => \A v \in Versions :
          LET has == pstate # NoRec /\ pstate.version = v
          IN  PostUpdateCode(v) =
                IF ~adm THEN 409
                ELSE IF ~has THEN 404
                ELSE IF IsExpired(pstate) THEN 410
                ELSE 200

\* C7: a POST /download that arrives while the stage is downloading,
\* verifying or installing is answered 409.
C7_BusyIs409 ==
    (up /\ stage \in {"downloading", "verifying", "installing"})
        => PostDownloadCode = 409

\* C8: when the task of an accepted command ends, the stage is an outcome of
\* that command: toInstall or failed for a download, success or failed for
\* an update.
C8_TaskEndsInOutcome ==
    [][\A t \in TaskIds :
         (tasks[t].kind # "none" /\ tasks'[t].kind = "none") =>
            stage' \in (IF tasks[t].kind = "download"
                        THEN {"toInstall", "failed"}
                        ELSE {"success", "failed"})]_vars

\* C11: when a download is issued again after the same download was
\* interrupted with k > 0 bytes on disk, the second run continues from
\* offset k, leaves the file as it is, opens it in append mode, and no chunk
\* it writes changes a byte that was on disk before.
C11_ResumeFromOffset ==
    [][\A t \in TaskIds :
         /\ (IsDownload(t, "pending") /\ tasks'[t].pc = "dl_connect"
                /\ Alive = {t} /\ file.ex /\ Len(file.data) > 0
                /\ file.src = tasks[t].ver)
              => (tasks'[t].bytes = Len(file.data) /\ file' = file)
         /\ (IsDownload(t, "dl_connect") /\ tasks'[t].pc = "dl_body"
                /\ Alive = {t} /\ tasks[t].bytes > 0)
              => (tasks'[t].mode = "ab" /\ file' = file)
         /\ (IsDownload(t, "dl_body") /\ tasks'[t].pc = "dl_body"
                /\ Alive = {t} /\ tasks[t].mode = "ab" /\ file.ex)
              => SubSeq(file'.data, 1, Len(file.data)) = file.data]_vars

\* C12: when the hash check of a completed download passes, the record on
\* disk has stage toInstall and carries the verification time, and the status
\* is toInstall with progress 100.
C12_VerifiedIsPersisted ==
    [][\A t \in TaskIds :
         (IsDownload(t, "dl_body") /\ tasks'[t] = TaskNone
            /\ stage' = "toInstall")
           => /\ progress' = 100
              /\ disk' \notin {NoRec, Corrupt}
              /\ disk'.stage = "toInstall"
              /\ disk'.verified = "fresh"]_vars

\* C13: when the process is restarted while the stage is toInstall (and the
\* package has not expired), then after startup the stage is toInstall again,
\* the package file is still on disk, and POST /update of its version is
\* admitted.
C13_RestartKeepsPackage ==
    [][(~up /\ up' /\ atKill = "toInstall" /\ file.ex
          /\ (disk \in {NoRec, Corrupt} \/ ~IsExpired(disk)))
         => /\ stage' = "toInstall"
            /\ file'.ex
            /\ (PostUpdateCode(file.src))' = 200]_vars

\* C14: startup self-heal applies the recovery table to the record it finds:
\* no record, idle; expired, package and record deleted, idle; stage
\* downloading or verifying, package and record deleted, idle; stage failed,
\* record kept and status failed; another stage with more bytes than the
\* package has, package and record deleted, idle; otherwise the stage of the
\* record is restored.
C14_RecoveryTable ==
    [][(~up /\ up' /\ disk # Corrupt)
         => LET r == disk
                wiped == file' = NoFile /\ disk' = NoRec /\ pstate' = NoRec
                           /\ stage' = "idle"
                kept == disk' = r /\ file' = file
            IN  IF r = NoRec THEN stage' = "idle" /\ kept
                ELSE IF r.verified = "old" THEN wiped
                ELSE IF r.stage \in {"downloading", "verifying"} THEN wiped
                ELSE IF r.stage = "failed" THEN stage' = "failed" /\ kept
                ELSE IF r.bytes > r.size THEN wiped
                ELSE stage' = r.stage /\ kept]_vars

\* A record with a stage that is neither interrupted nor failed was restored.
C14_Witness ==
    /\ up /\ disk \notin {NoRec, Corrupt}
    /\ disk.stage = "installing" /\ stage = "installing"
    /\ disk.bytes = disk.size

\* C15: when a download ends with a transport error the package file and the
\* record are kept, the record on disk has stage failed and the status is
\* failed with DOWNLOAD_FAILED; when it ends with a size validation error the
\* package file and the record are deleted and the status is failed with
\* that code.
C15_DownloadFailureCleanup ==
    [][\A t \in TaskIds :
         (tasks[t].kind = "download" /\ tasks[t].pc \in {"dl_connect", "dl_body"}
            /\ tasks'[t] = TaskNone)
           => /\ error' = "DOWNLOAD_FAILED"
                   => /\ stage' = "failed"
                      /\ file' = file
                      /\ disk \notin {NoRec, Corrupt}
                           => (disk' \notin {NoRec, Corrupt}
                                 /\ disk'.stage = "failed")
              /\ error' \in {"INCOMPLETE_DOWNLOAD", "PACKAGE_SIZE_MISMATCH"}
                   => /\ stage' = "failed"
                      /\ file' = NoFile
                      /\ disk' = NoRec]_vars

\* C16: when the whole package has been downloaded and its MD5 differs from
\* the declared one, the package file is deleted, a record with stage failed
\* and bytes_downloaded 0 is written to disk, and the status is failed with
\* MD5_MISMATCH.
C16_Md5MismatchCleanup ==
    [][\A t \in TaskIds :
         (IsDownload(t, "dl_body") /\ tasks'[t] = TaskNone /\ up'
            /\ error' # "DOWNLOAD_FAILED"
            /\ tasks[t].bytes = tasks[t].size
            /\ tasks[t].expected \in {-1, tasks[t].bytes}
            /\ file.ex /\ Md5(file.data) # tasks[t].md5)
           => /\ file' = NoFile
              /\ disk' = [version |-> tasks[t].ver, size |-> tasks[t].size,
                          md5 |-> tasks[t].md5, bytes |-> 0,
                          stage |-> "failed", verified |-> "none"]
              /\ stage' = "failed"
              /\ error' = "MD5_MISMATCH"]_vars

\* A download has ended on a hash mismatch.
C16_Witness ==
    /\ stage = "failed" /\ error = "MD5_MISMATCH"
    /\ ~file.ex
    /\ disk \notin {NoRec, Corrupt} /\ disk.stage = "failed" /\ disk.bytes = 0

\* No task exists and the process serves requests.
BetweenOperations == up /\ Alive = {}

ExpiredOnDisk == disk \notin {NoRec, Corrupt} /\ IsExpired(disk)

\* C18: an expired package and its record are deleted before a new operation
\* starts: no download or install task runs while an expired record exists,
\* and while the process serves requests between operations an expired
\* record does not keep a new download from being admitted.
C18_ExpiredDeletedFirst ==
    /\ \A t \in TaskIds : tasks[t].pc \notin {"none", "pending"} => ~ExpiredOnDisk
    /\ BetweenOperations /\ ExpiredOnDisk => PostDownloadCode = 200

\* Level 1 of task t raises in this step: a service does not stop, the
\* repointing to previous has raised, or the services are unhealthy after it.
Level1Fails(t) ==
    /\ up' /\ tasks[t].kind = "update" /\ tasks[t].lvl = 1
    /\ \/ /\ tasks[t].pc = "rb_stop" /\ tasks'[t] # tasks[t]
          /\ tasks'[t].pc # "rb_link"
       \/ /\ tasks[t].pc = "rb_link" /\ tasks'[t].pc # "rb_link"
          /\ vm.err # "none"
       \/ /\ tasks[t].pc = "rb_health" /\ tasks'[t].pc # "rb_health"
          /\ ~VerifyServicesHealthy(tasks[t].svc)

\* Level 1 of task t returns in this step.
Level1Succeeds(t) ==
    /\ up' /\ IsUpdate(t, "rb_health") /\ tasks[t].lvl = 1
    /\ tasks'[t].pc # "rb_health"
    /\ VerifyServicesHealthy(tasks[t].svc)

\* C19: Level 2 (factory) is attempted iff Level 1 (previous) failed; when
\* Level 1 succeeds the rollback returns, and rollback_to_factory is called
\* by nothing but a rollback that is at Level 2.
C19_Level2IffLevel1Failed ==
    [][/\ \A t \in TaskIds :
            /\ Level1Fails(t)
                 => (tasks'[t].lvl = 2 /\ tasks'[t].pc = "rb_stop")
            /\ (tasks'[t].lvl = 2 /\ tasks[t].lvl # 2) => Level1Fails(t)
            /\ Level1Succeeds(t) => tasks'[t] = TaskNone
       /\ (vm'.op = "rb_factory" /\ vm.op # "rb_factory")
            => \E t \in TaskIds :
                 vm'.caller = t /\ tasks[t].lvl = 2 /\ tasks[t].kind = "update"
      ]_vars

\* Level 1 has failed and the rollback is repointing current to factory.
C19_Witness ==
    \E t \in TaskIds :
        /\ IsUpdate(t, "rb_link") /\ tasks[t].lvl = 2
        /\ vm.op = "rb_factory" /\ vm.caller = t

\* C20: during Level 1, when a previous version exists (current has been
\* repointed to it) and every service of the manifest reports active after
\* the restart, rollback_to_previous succeeds: the rollback returns without
\* entering Level 2 and current stays on the previous version.
C20_Level1SucceedsWhenActive ==
    [][\A t \in TaskIds :
         (IsUpdate(t, "rb_health") /\ tasks[t].lvl = 1 /\ tasks[t].act
            /\ tasks'[t] # tasks[t] /\ up')
           => /\ tasks'[t] = TaskNone
              /\ links'.current = tasks[t].rbv]_vars

\* Task t ends in this step (the process is not killed).
TaskEndsNow(t) == tasks[t].kind # "none" /\ tasks'[t] = TaskNone /\ up'

\* The stage the operation of task t ends in: success for an install whose
\* deploy_package has returned, else what the ending step writes.
EndStage(t) == IF IsUpdate(t, "in_done") THEN "success" ELSE stage'

\* C21: every operation, download or install, that ends in success or failed
\* has made a report call carrying that stage.
C21_TerminalStageReported ==
    [][\A t \in TaskIds :
         (TaskEndsNow(t) /\ EndStage(t) \in {"success", "failed"})
           => tasks[t].rep = EndStage(t)]_vars

C23_ProgressInRange ==
    /\ progress \in 0..100
    /\ ~GetStatusRaises

\* ================================================ properties: SpecModules
\* C24: while the stage stays downloading or installing, each progress
\* written is at least the one written before it: across the chunks of a
\* download, and across stop services (5), the modules, start services (85)
\* and verify (95) of an install, for any number of modules.
C24_ProgressNonDecreasing ==
    [][(stage' = stage /\ stage \in {"downloading", "installing"})
         => progress' >= progress]_vars

C26_SuccessDeletesRecord ==
    [][\A t \in TaskIds :
         (IsUpdate(t, "in_done") /\ TaskEndsNow(t))
           => /\ disk' = NoRec
              /\ pstate' = NoRec
              /\ PostUpdateCode(tasks[t].ver)' = 404]_vars

\* C27: when startup finds a state.json that does not parse or does not
\* validate, it completes all the same, the file is removed, no record is
\* cached and the stage reported afterwards is idle.
C27_CorruptStateRemoved ==
    [][(~up /\ up' /\ disk = Corrupt)
         => /\ disk' = NoRec
            /\ pstate' = NoRec
            /\ stage' = "idle" /\ progress' = 0
            /\ ~GetStatusRaises']_vars

\* Startup is about to read an unreadable state.json left to a process
\* that has been killed.
C27_Witness == ~up /\ disk = Corrupt /\ atKill = "downloading"

\* ===================================================== properties: SpecVM
\* C28: delete_version(v) raises and removes nothing when v is the current,
\* the previous or the factory version; when it removes a directory, that
\* is v<v> alone, no link resolved to it, and no link is touched.
C28_DeleteRefusesLinked ==
    [][(vm.op = "idle" /\ vm'.op = "delete")
         => LET v == vm'.v
                linked == \E l \in LinkNames : GetVersion(l) = v
            IN  /\ linked => (vm'.err = "ValueError" /\ dirs' = dirs)
                /\ vm'.err # "none" => dirs' = dirs
                /\ vm'.err = "none"
                     => (~linked /\ v \in dirs /\ dirs' = dirs \ {v})
                /\ links' = links]_vars

\* delete_version has refused to remove the factory version, which is
\* neither current nor previous.
C28_Witness ==
    /\ vm.op = "delete" /\ vm.err = "ValueError"
    /\ vm.v = GetVersion("factory")
    /\ vm.v \notin {GetVersion("current"), GetVersion("previous")}
    /\ vm.v \in dirs

\* C29: once a factory link is set, set_factory_version and
\* create_factory_version fail, and the link's target never changes again,
\* whatever promote, rollback, delete or factory calls follow.
C29_FactorySetOnce ==
    [][links["factory"] # NoV
         => /\ links'["factory"] = links["factory"]
            /\ (vm.op = "idle" /\ vm'.op \in {"set_factory", "create_factory"})
                 => (vm'.pc = "done" /\ vm'.err # "none")]_vars

\* C30: rollback_to_previous and rollback_to_factory raise RuntimeError and
\* leave `current` as it was when their link is absent or its directory is
\* missing; otherwise, when they return, `current` points to that link's
\* target and its version is returned, and if the link update itself fails
\* they raise OSError with `current` as it was.
C30_RollbackRepointsOrRaises ==
    (vm.pc = "done" /\ vm.op \in {"rb_previous", "rb_factory"})
        => LET l == IF vm.op = "rb_previous" THEN "previous" ELSE "factory"
           IN  IF ~LinkExists(l)
               THEN vm.err = "RuntimeError" /\ links["current"] = vm.cur0
               ELSE \/ /\ vm.err = "none"
                       /\ links["current"] = links[l]
                       /\ vm.v = links[l]
                    \/ /\ vm.err = "OSError"
                       /\ links["current"] = vm.cur0

\* rollback_to_previous has returned after moving `current` to the previous
\* version.
C30_Witness ==
    /\ vm.pc = "done" /\ vm.op = "rb_previous" /\ vm.err = "none"
    /\ vm.cur0 # NoV /\ vm.cur0 # vm.v
    /\ links["current"] = vm.v /\ links["previous"] = vm.v

\* ======================================================= properties: Spec
\* The install of task t has failed in step 3: its snapshot directory had
\* been created and its module loop never began.
StopFailed(t) ==
    /\ tasks[t].kind = "update"
    /\ tasks[t].vdir /\ tasks[t].idx = 0
    /\ tasks[t].pc # "in_stop"

\* C31: an install that failed to stop a service extracts no module and
\* runs no rollback, and `current` and `previous` point where they pointed
\* before the install.
C31_StopFailureNoRollback ==
    \A t \in TaskIds :
        StopFailed(t)
          => /\ tasks[t].pc = "h_report"
             /\ GetVersion("current") = tasks[t].cur0
             /\ GetVersion("previous") = tasks[t].prev0

C34_PostCmdFailureFails ==
    \A t \in TaskIds :
        (tasks[t].kind = "update" /\ tasks[t].pcmd)
          => tasks[t].pc \in {"in_stop", "in_module"}

\* C35: an install is started (stage installing) only for a package file
\* that a complete download left behind: the file exists, belongs to the
\* download of the cached record, has the declared size and the declared
\* MD5.
C35_InstallOnlyVerifiedPackage ==
    [][\A t \in TaskIds :
         (IsUpdate(t, "pending") /\ tasks'[t].pc = "in_create")
           => /\ file.ex /\ pstate # NoRec
              /\ file.src = pstate.version
              /\ Len(file.data) = pstate.size
              /\ Md5(file.data) = pstate.md5]_vars

\* C36: whatever record load_state accepts, after startup the stage is not
\* a busy one (downloading, verifying, installing, rebooting), and download
\* or the update of some version is admissible.
C36_StartupNotBusy ==
    [][(~up /\ up')
         => /\ stage' \notin {"downloading", "verifying", "installing",
                               "rebooting"}
            /\ \/ PostDownloadCode' = 200
               \/ \E v \in Versions : PostUpdateCode(v)' = 200]_vars

\* C37: promote_version is all-or-nothing over current and previous: when
\* it has raised, both links point where they pointed when it was called.
C37_PromoteAllOrNothing ==
    (vm.op = "promote" /\ vm.pc = "done" /\ vm.err # "none")
        => /\ links["current"] = vm.cur0
           /\ links["previous"] = vm.prev0

\* Level 2 of task t raises in this step, so both levels have failed: a
\* service does not stop, the repointing to factory has raised, or the
\* services are unhealthy after it.
Level2Fails(t) ==
    /\ up' /\ tasks[t].kind = "update" /\ tasks[t].lvl = 2
    /\ \/ /\ tasks[t].pc = "rb_stop" /\ tasks'[t] # tasks[t]
          /\ tasks'[t].pc # "rb_link"
       \/ /\ tasks[t].pc = "rb_link" /\ tasks'[t].pc # "rb_link"
          /\ vm.err # "none"
       \/ /\ tasks[t].pc = "rb_health" /\ tasks'[t].pc # "rb_health"
          /\ ~VerifyServicesHealthy(tasks[t].svc)

\* C38: when both rollback levels have failed, `current` points to the
\* version it pointed to before the install began.
C38_BothFailedCurrentKept ==
    [][\A t \in TaskIds :
         Level2Fails(t) => GetVersion("current")' = tasks[t].cur0]_vars

\* ================================================== properties: SpecOps
\* C39: whatever installs, promotions, rollbacks and deletions have been
\* made, each of current, previous and factory that is set points to a
\* version directory that exists.
C39_NoDanglingLink ==
    \A l \in LinkNames : links[l] # NoV => links[l] \in dirs

\* C39 witness: after a failed install, delete_version has removed a
\* version on a device whose current and previous are set.
C39_Witness ==
    /\ vm.op = "delete" /\ vm.pc = "done" /\ vm.err = "none"
    /\ vm.v \notin dirs
    /\ stage = "failed"
    /\ links["current"] # NoV /\ links["previous"] # NoV

\* =================================================== properties: SpecSM
\* C40: after every save_state, load_state, delete_state or reset,
\* get_persistent_state() returns a record iff state.json exists, and the
\* record it returns is the content of the file.
C40_CacheMatchesFile ==
    [][pstate' = disk']_vars
=========================================================================
